---- MODULE Spec2Model ----
(***************************************************************************)
(* The validator script of i-go-protect (validator_script.py, Locksmith.py) *)
(* as a state machine: the polling loop of main(), the key tool behind      *)
(* `goal account ...`, the cached participation key table of                *)
(* PartkeyFetcherGoal and the delegator contracts on the ledger.            *)
(***************************************************************************)
EXTENDS Integers, Sequences, FiniteSets, TLC

VARIABLES
    contracts,              \* ledger: contract id -> [present, state]
    last_round,             \* ledger: algod.status()['last-round']
    keys,                   \* key tool: the participation key records it holds
    num_generated,          \* key tool: how many keys addpartkey has created
    partkey_table,          \* PartkeyFetcherGoal.partkey_table (None or rows)
    pc,                     \* position of main(): fetch, created, deposited, active, sleep, crashed
    idx,                    \* index of the next del_app of the bucket being iterated
    del_app_list,           \* input of the classification
    del_app_active_list,    \* the three cluster stacks of the current cycle
    del_app_deposited_list,
    del_app_created_list,
    ops,                    \* the calls made since the last fetch, in order
    prev,                   \* contracts deposited / terminated before the last fetch
    fatal,                  \* the exception that ended the process, if any
    list_cmd_result,        \* STDOUT of `goal account listpartkeys` handed to the parser
    info_cmd_result,        \* STDOUT of `goal account partkeyinfo` handed to the parser
    parsed,                 \* what _make_partkey_table_from_stdout made of the two
    loop_period_s,          \* the configured period of the loop
    start_time,             \* time.time() at the top of the cycle
    now,                    \* time.time()
    slept                   \* what try_to_go_to_sleep returned

\* The state of main() and of its collaborators, but for the position pc.
loop_vars == << contracts, last_round, keys, num_generated, partkey_table, idx,
                del_app_list, del_app_active_list, del_app_deposited_list,
                del_app_created_list, ops, prev, fatal >>

parser_vars == << list_cmd_result, info_cmd_result, parsed >>

timer_vars == << loop_period_s, start_time, now, slept >>

vars == << loop_vars, pc, parser_vars, timer_vars >>

-----------------------------------------------------------------------------
(* Bounds *)

NumContracts == 2
MaxRound == 2
MaxGen == 2
MaxLen == 3

Contracts == 1..NumContracts
\* The values an on-chain flag is read as: 0, 1, and an integer above 1.
Flags == {0, 1, 2}

-----------------------------------------------------------------------------
(* Values *)

\* The delegator account of a contract state is an object that carries the
\* account's bytes; encode_address turns the bytes into the address string.
DelAccOf(a) == [t |-> "ByteReader", v |-> a]

as_bytes(del_acc) == del_acc.v

encode_address(bytes) == [t |-> "str", v |-> bytes]

\* What f'{acc}' gives inside a query: the string itself for a str, the
\* object's repr (the address of no account, written 0) for anything else.
FormatAcc(acc) == IF acc.t = "str" THEN acc.v ELSE 0

\* Python's bool() of an integer flag.
Bool(x) == x # 0

None == [avail |-> FALSE, rows |-> {}]

Table(rows) == [avail |-> TRUE, rows |-> rows]

NoFatal == [cause |-> "none", path |-> "none"]

Fatal(cause, path) == [cause |-> cause, path |-> path]

NoPrev == [deposited |-> {}, terminated |-> {}]

Ev(op, c, arg, ok) == [op |-> op, c |-> c, arg |-> arg, ok |-> ok]

\* The parser has not been called; no table (the parser's None).
NotParsed == [exc |-> "none", called |-> FALSE, avail |-> FALSE, rows |-> << >>]

ParserIdle ==
    /\ list_cmd_result = << >>
    /\ info_cmd_result = << >>
    /\ parsed = NotParsed

TimerIdle ==
    /\ loop_period_s = 0
    /\ start_time = 0
    /\ now = 0
    /\ slept = 0

-----------------------------------------------------------------------------
(* Classification: validator_script.py lines 27-54 *)

are_part_keys_confirmed(del_app_state) == Bool(del_app_state.keys_confirmed)

are_part_keys_deposited(del_app_state) == Bool(del_app_state.part_keys_deposited)

EmptyStacks == [active |-> << >>, deposited |-> << >>, created |-> << >>]

\* The body of the for loop: one del_app appended to one of the three lists.
ClusterAppendBoth(stacks, del_app) ==
    LET a == IF are_part_keys_confirmed(del_app.state)
             THEN [stacks EXCEPT !.active = Append(@, del_app)]
             ELSE stacks
    IN  IF are_part_keys_deposited(del_app.state)
        THEN [a EXCEPT !.deposited = Append(@, del_app)]
        ELSE IF are_part_keys_confirmed(del_app.state)
             THEN a
             ELSE [a EXCEPT !.created = Append(@, del_app)]

ClusterAppendDepositedFirst(stacks, del_app) ==
    IF are_part_keys_deposited(del_app.state)
    THEN [stacks EXCEPT !.deposited = Append(@, del_app)]
    ELSE IF are_part_keys_confirmed(del_app.state)
         THEN [stacks EXCEPT !.active = Append(@, del_app)]
         ELSE [stacks EXCEPT !.created = Append(@, del_app)]

ClusterAppendCreatedTwice(stacks, del_app) ==
    IF are_part_keys_confirmed(del_app.state)
    THEN [stacks EXCEPT !.active = Append(@, del_app)]
    ELSE IF are_part_keys_deposited(del_app.state)
         THEN [stacks EXCEPT !.deposited = Append(@, del_app)]
         ELSE [stacks EXCEPT !.created = Append(@, del_app),
                             !.deposited = Append(@, del_app)]

ClusterAppendNoCreated(stacks, del_app) ==
    IF are_part_keys_confirmed(del_app.state)
    THEN [stacks EXCEPT !.active = Append(@, del_app)]
    ELSE [stacks EXCEPT !.deposited = Append(@, del_app)]

ClusterAppend(stacks, del_app) ==
    IF are_part_keys_confirmed(del_app.state)
    THEN [stacks EXCEPT !.active = Append(@, del_app)]
    ELSE IF are_part_keys_deposited(del_app.state)
         THEN [stacks EXCEPT !.deposited = Append(@, del_app)]
         ELSE [stacks EXCEPT !.created = Append(@, del_app)]

RECURSIVE ClusterFrom(_, _, _)
ClusterFrom(list, i, stacks) ==
    IF i > Len(list) THEN stacks
    ELSE ClusterFrom(list, i + 1, ClusterAppend(stacks, list[i]))

check_del_app_state_and_generate_cluster_stack(list) ==
    ClusterFrom(list, 1, EmptyStacks)

-----------------------------------------------------------------------------
(* The sleep at the end of a cycle: validator_script.py lines 58-76, with   *)
(* time_s the value time.time() returns at line 71.                          *)

sleep_whole_period(period, start, time_s) == period

try_to_go_to_sleep(period, start, time_s) ==
    LET elapsed_time_s == time_s - start
    IN  IF elapsed_time_s < period THEN period - elapsed_time_s ELSE 0

-----------------------------------------------------------------------------
(* The ledger: contract states, and the transactions the script submits.    *)
(* utils.py, Bouncer.py and NoticeboardClient.py are not part of the source *)
(* at hand: their effects follow the specification's sections 4.3 and 6.    *)

VAL_APP_ID == "validator_ad_id"

CONFIRM_GRACE == 1

InitClasses == {"created", "deposited", "active", "breached"}

InitStateOf(c, cls) ==
    [ del_acc |-> DelAccOf(c),
      round_start |-> 0,
      round_end |-> 1,
      keys_confirmed |-> IF cls \in {"active", "breached"} THEN 1 ELSE 0,
      part_keys_deposited |-> IF cls = "created" THEN 0 ELSE 1,
      round_deposited |-> 0,
      breached |-> (cls = "breached") ]

RECURSIVE ListFrom(_, _)
ListFrom(led, c) ==
    IF c > NumContracts THEN << >>
    ELSE (IF led[c].present THEN << [id |-> c, state |-> led[c].state] >> ELSE << >>)
         \o ListFrom(led, c + 1)

\* fetch_contracts: the contracts of this validator still on the ledger.
get_del_app_list(led) == ListFrom(led, 1)

\* deposit_keys, confirmed: the contract's part_keys_deposited flag is set.
LedgerDeposit(led, c, round) ==
    [led EXCEPT ![c].state.part_keys_deposited = 1,
                ![c].state.round_deposited = round]

\* A confirmed termination removes the contract from later fetches.
LedgerTerminate(led, c) == [led EXCEPT ![c].present = FALSE]

has_del_app_partkey_confirmation_time_elapsed(round, st) ==
    /\ ~Bool(st.keys_confirmed)
    /\ round > st.round_deposited + CONFIRM_GRACE

has_del_app_expired(round, st) == round > st.round_end

has_del_indefinitely_breached_terms(round, st) == st.breached

DepositOutcomes == {"confirmed", "unconfirmed", "raise"}

TermOutcomes == {"confirmed", "raise"}

-----------------------------------------------------------------------------
(* The key tool (goal account addpartkey / deletepartkey / listpartkeys /   *)
(* partkeyinfo) and the command runner: Locksmith.py lines 32-56            *)

CmdOutcomes == {"ok", "nonzero", "oserror"}

RefreshOutcomes == {"table", "mismatch", "malformed", "invalid"}

run_cmd_always_valid(outcome) == [ exc |-> "none", valid |-> TRUE ]

\* subprocess.run raised OSError: result is still None and `result.stdout`
\* raises AttributeError; otherwise (command_validity, stdout) is returned.
run_cmd_command_and_wait_for_output(outcome) ==
    [ exc |-> IF outcome = "oserror" THEN "AttributeError" ELSE "none",
      valid |-> (outcome = "ok") ]

\* int(round(sqrt(n)))
IntRoundSqrt(n) ==
    CHOOSE r \in 0..(n + 1) :
        /\ (r = 0 \/ (2 * r - 1) * (2 * r - 1) <= 4 * n)
        /\ 4 * n < (2 * r + 1) * (2 * r + 1)

addpartkey_args_swapped(del_acc, first_valid, last_valid) ==
    [ a |-> FormatAcc(del_acc),
      roundFirstValid |-> last_valid,
      roundLastValid |-> first_valid,
      keyDilution |-> IntRoundSqrt(last_valid - last_valid) ]

addpartkey_cmd_command_args(del_acc, first_valid, last_valid) ==
    [ a |-> FormatAcc(del_acc),
      roundFirstValid |-> first_valid,
      roundLastValid |-> last_valid,
      keyDilution |-> IntRoundSqrt(last_valid - last_valid) ]

\* The record the key tool holds after a successful addpartkey.
ToolKey(id, args) ==
    [ participation_id |-> id,
      parent_address |-> args.a,
      first_round |-> args.roundFirstValid,
      last_round |-> args.roundLastValid,
      key_dilution |-> args.keyDilution ]

\* The dilution the key tool gives a key. Asked for 0 it either keeps the 0
\* or takes its own default for the window, 1 + sqrt(last - first).
DefaultKeyDilution(first_valid, last_valid) == 1 + IntRoundSqrt(last_valid - first_valid)

ToolDilutions(args) ==
    IF args.keyDilution = 0
    THEN {0, DefaultKeyDilution(args.roundFirstValid, args.roundLastValid)}
    ELSE {args.keyDilution}

NewPartkeyId(n) == NumContracts + n + 1

\* addpartkey can succeed only while the tool's id counter is below MaxGen.
GenOutcomes(n) == IF n < MaxGen THEN CmdOutcomes ELSE CmdOutcomes \ {"ok"}

\* deletepartkey exits non-zero when the tool holds no key of that id.
ToolDelete(k, id, outcome) ==
    IF outcome = "ok" /\ \E r \in k : r.participation_id = id
    THEN [ outcome |-> "ok", keys |-> {r \in k : r.participation_id # id} ]
    ELSE [ outcome |-> IF outcome = "ok" THEN "nonzero" ELSE outcome, keys |-> k ]

-----------------------------------------------------------------------------
(* The parser of the key tool's output: Locksmith.py lines 99-112, 225-331. *)
(* A text is the sequence of the pieces str.split('\n') cuts it into; a     *)
(* line is a sequence of symbols: "sp" for a blank, ":" for a colon, one    *)
(* symbol for the characters of a column label, and letters for the rest.   *)

COLUMNS ==
    << [key |-> "participation_id", label |-> "Participation ID"],
       [key |-> "parent_address", label |-> "Parent address"],
       [key |-> "last_vote_round", label |-> "Last vote round"],
       [key |-> "last_block_proposal_round", label |-> "Last block proposal round"],
       [key |-> "effective_first_round", label |-> "Effective first round"],
       [key |-> "effective_last_round", label |-> "Effective last round"],
       [key |-> "first_round", label |-> "First round"],
       [key |-> "last_round", label |-> "Last round"],
       [key |-> "key_dilution", label |-> "Key dilution"],
       [key |-> "selection_key", label |-> "Selection key"],
       [key |-> "voting_key", label |-> "Voting key"],
       [key |-> "state_proof_key", label |-> "State proof key"] >>

ColumnKeys == {COLUMNS[i].key : i \in 1..Len(COLUMNS)}

\* The number of lines of one partkey in the info output (line 301).
PartkeyLines == 12

\* seq[a:b] of Python, for 0 <= a.
PySlice(seq, a, b) ==
    LET hi == IF b > Len(seq) THEN Len(seq) ELSE b
    IN  IF a >= hi THEN << >> ELSE SubSeq(seq, a + 1, hi)

\* line.split(':')
RECURSIVE Split(_, _)
Split(line, sep) ==
    IF \E i \in 1..Len(line) : line[i] = sep
    THEN LET i == CHOOSE j \in 1..Len(line) :
                      line[j] = sep /\ \A m \in 1..(j - 1) : line[m] # sep
         IN  << SubSeq(line, 1, i - 1) >> \o Split(SubSeq(line, i + 1, Len(line)), sep)
    ELSE << line >>

StripNothing(s) == s

\* str.strip()
RECURSIVE Strip(_)
Strip(s) ==
    IF s = << >> THEN s
    ELSE IF Head(s) = "sp" THEN Strip(Tail(s))
    ELSE IF s[Len(s)] = "sp" THEN Strip(SubSeq(s, 1, Len(s) - 1))
    ELSE s

\* Lines 268-272: the 0-based indexes of the lines that are one blank, and
\* after them the index of the last line.
RECURSIVE DelimitersFrom(_, _)
DelimitersFrom(res, i) ==
    IF i > Len(res) THEN << >>
    ELSE (IF res[i] = << "sp" >> THEN << i - 1 >> ELSE << >>)
         \o DelimitersFrom(res, i + 1)

delimiter_idx(res) == DelimitersFrom(res, 1) \o << Len(res) - 1 >>

\* Lines 265-279: the lines between one delimiter and the next.
GroupPartkeys(info_result) ==
    LET res == Tail(info_result)
        d == delimiter_idx(res)
    IN  [ i \in 1..(Len(d) - 1) |-> PySlice(res, d[i] + 1, d[i + 1]) ]

check_partkey_list_raw_format_validity(partkey_list_raw) ==
    \A b \in 1..Len(partkey_list_raw) :
        LET partkey == partkey_list_raw[b]
        IN  /\ Len(partkey) = PartkeyLines
            /\ \A i \in 1..Len(COLUMNS) :
                   PySlice(partkey[i], 1, 2) = << COLUMNS[i].label >>

\* Lines 281-285: the grouped lines, or None.
filter_partkeys_from_stdout(info_result) ==
    LET partkey_list_raw == GroupPartkeys(info_result)
    IN  IF check_partkey_list_raw_format_validity(partkey_list_raw)
        THEN [ none |-> FALSE, list |-> partkey_list_raw ]
        ELSE [ none |-> TRUE, list |-> << >> ]

\* Lines 325-329 for one line: the column and the stripped value, or what
\* the unpacking (ValueError) or the column lookup (TypeError) raises.
ConvertLine(line) ==
    LET parts == Split(line, ":")
        key == Strip(parts[1])
        column == {i \in 1..Len(COLUMNS) : << COLUMNS[i].label >> = key}
    IN  IF Len(parts) # 2 THEN [ exc |-> "ValueError", key |-> "", value |-> << >> ]
        ELSE IF column = {} THEN [ exc |-> "TypeError", key |-> "", value |-> << >> ]
        ELSE [ exc |-> "none",
               key |-> COLUMNS[CHOOSE i \in column : TRUE].key,
               value |-> Strip(parts[2]) ]

\* A cell no line has written.
NaN == << "NaN" >>

\* Lines 321-331: one row per partkey, one column per key of COLUMNS.
convert_partkey_list_raw_to_table(partkey_list_raw) ==
    LET conv == [ b \in 1..Len(partkey_list_raw) |->
                    [ i \in 1..Len(partkey_list_raw[b]) |->
                        ConvertLine(partkey_list_raw[b][i]) ] ]
        bad == { p \in (1..Len(conv)) \X (1..PartkeyLines) : conv[p[1]][p[2]].exc # "none" }
        first == CHOOSE p \in bad :
                     \A q \in bad : p[1] < q[1] \/ (p[1] = q[1] /\ p[2] <= q[2])
        row(b) == [ k \in ColumnKeys |->
                      LET hits == {i \in 1..Len(conv[b]) : conv[b][i].key = k}
                      IN  IF hits = {} THEN NaN
                          ELSE conv[b][CHOOSE i \in hits : \A j \in hits : j <= i].value ]
    IN  IF bad # {}
        THEN [ exc |-> conv[first[1]][first[2]].exc, called |-> TRUE,
               avail |-> FALSE, rows |-> << >> ]
        ELSE [ exc |-> "none", called |-> TRUE, avail |-> TRUE,
               rows |-> [ b \in 1..Len(conv) |-> row(b) ] ]

\* Lines 240-248. len(None) raises TypeError when the format check failed.
make_partkey_table_from_stdout(list_result, info_result) ==
    LET num_of_keys == Len(list_result) - 2
        partkey_list_raw == filter_partkeys_from_stdout(info_result)
    IN  IF partkey_list_raw.none
        THEN [ exc |-> "TypeError", called |-> TRUE, avail |-> FALSE, rows |-> << >> ]
        ELSE IF Len(partkey_list_raw.list) # num_of_keys
        THEN [ exc |-> "none", called |-> TRUE, avail |-> FALSE, rows |-> << >> ]
        ELSE convert_partkey_list_raw_to_table(partkey_list_raw.list)

-----------------------------------------------------------------------------
(* PartkeyFetcherGoal: Locksmith.py lines 115-211 *)

\* Both commands valid: the table is what the parser makes of their output
\* (None when the counts disagree, TypeError when the format check fails);
\* otherwise RuntimeError.
refresh_partkey_table(outcome, k) ==
    IF outcome = "invalid" THEN [ exc |-> "RuntimeError", table |-> None ]
    ELSE IF outcome = "malformed" THEN [ exc |-> "TypeError", table |-> None ]
    ELSE IF outcome = "mismatch" THEN [ exc |-> "none", table |-> None ]
    ELSE [ exc |-> "none", table |-> Table(k) ]

NoKey == [ vote_key_dilution |-> 0, round_start |-> 0, round_end |-> 0, id |-> 0 ]

\* After its own refresh (refresh_table defaults to True).
get_partkey_details(table, partkey_id) ==
    LET row == {r \in table.rows : r.participation_id = partkey_id}
    IN  IF ~table.avail THEN [ exc |-> "AttributeError", partkey |-> NoKey ]
        ELSE IF Cardinality(row) = 0 THEN [ exc |-> "ValueError", partkey |-> NoKey ]
        ELSE IF Cardinality(row) > 1 THEN [ exc |-> "RuntimeError", partkey |-> NoKey ]
        ELSE LET r == CHOOSE x \in row : TRUE
             IN  [ exc |-> "none",
                   partkey |-> [ vote_key_dilution |-> r.key_dilution,
                                 round_start |-> r.first_round,
                                 round_end |-> r.last_round,
                                 id |-> r.participation_id ] ]

lookup_first_match(table, acc) ==
    LET row == {r \in table.rows : r.parent_address = FormatAcc(acc)}
    IN  IF ~table.avail THEN [ exc |-> "AttributeError", status |-> "no_table", id |-> 0 ]
        ELSE IF Cardinality(row) = 0
             THEN [ exc |-> "ValueError", status |-> "not_found", id |-> 0 ]
        ELSE [ exc |-> "none", status |-> "found",
               id |-> (CHOOSE x \in row : TRUE).participation_id ]

get_partkey_id_from_acc(table, acc) ==
    LET row == {r \in table.rows : r.parent_address = FormatAcc(acc)}
    IN  IF ~table.avail THEN [ exc |-> "AttributeError", status |-> "no_table", id |-> 0 ]
        ELSE IF Cardinality(row) = 0
             THEN [ exc |-> "ValueError", status |-> "not_found", id |-> 0 ]
        ELSE IF Cardinality(row) > 1
             THEN [ exc |-> "ValueError", status |-> "ambiguous", id |-> 0 ]
        ELSE [ exc |-> "none", status |-> "found",
               id |-> (CHOOSE x \in row : TRUE).participation_id ]

-----------------------------------------------------------------------------
(* Locksmith: Locksmith.py lines 348-445 *)

\* generate_partkey with the outcome of the addpartkey command (gen), the
\* dilution the key tool gave the key (dil), and the outcome of
\* the two table refreshes that follow it (r1 in generate_partkey, r2 in
\* get_partkey_details). A command that is not valid ends in an exception
\* (line 357; building the message of the RuntimeError calls .join on a
\* list, so what is raised is an AttributeError).
generate_partkey(del_acc, round_start, round_end, k, n, gen, dil, r1, r2) ==
    LET args == addpartkey_cmd_command_args(del_acc, round_start, round_end)
        cmd == run_cmd_command_and_wait_for_output(gen)
        id == NewPartkeyId(n)
        k2 == k \cup {ToolKey(id, [args EXCEPT !.keyDilution = dil])}
        t1 == refresh_partkey_table(r1, k2)
        t2 == refresh_partkey_table(r2, k2)
        det == get_partkey_details(t2.table, id)
        fail(cause, kk, nn) ==
            [ exc |-> cause, args |-> args, keys |-> kk, n |-> nn,
              table |-> None, partkey |-> NoKey ]
    IN  IF cmd.exc # "none" \/ ~cmd.valid THEN fail("generate_cmd", k, n)
        ELSE IF t1.exc # "none" \/ t2.exc # "none" THEN fail("refresh", k2, n + 1)
        ELSE IF det.exc = "AttributeError" THEN fail("no_table", k2, n + 1)
        ELSE IF det.exc # "none" THEN fail("details", k2, n + 1)
        ELSE [ exc |-> "none", args |-> args, keys |-> k2, n |-> n + 1,
               table |-> t2.table, partkey |-> det.partkey ]

\* The arguments of noticeboard_client.deposit_keys.
DepositArgs(partkey, del_acc, del_app_id, val_app_id) ==
    [ del_acc |-> FormatAcc(del_acc),
      vote_key_dilution |-> IntRoundSqrt(partkey.vote_key_dilution),
      round_start |-> partkey.round_start,
      round_end |-> partkey.round_end,
      partkey_id |-> partkey.id,
      foreign_apps |-> << val_app_id, del_app_id >> ]

\* deposit_partkey returns result.confirmed_round (0 stands for none).
deposit_partkey(outcome, round) ==
    IF outcome = "raise" THEN [ exc |-> "LedgerError", result |-> 0 ]
    ELSE IF outcome = "unconfirmed" THEN [ exc |-> "none", result |-> 0 ]
    ELSE [ exc |-> "none", result |-> round + 1 ]

delete_del_app_partkey(table, k, del_acc, outcome) ==
    LET look == get_partkey_id_from_acc(table, del_acc)
        cmd == run_cmd_command_and_wait_for_output(outcome)
        tool == ToolDelete(k, look.id, outcome)
    IN  IF look.exc # "none"
        THEN [ exc |-> look.exc, status |-> look.status, id |-> 0, keys |-> k,
               valid |-> FALSE ]
        ELSE IF cmd.exc # "none"
        THEN [ exc |-> cmd.exc, status |-> "oserror", id |-> look.id, keys |-> k,
               valid |-> FALSE ]
        ELSE [ exc |-> "none",
               status |-> IF tool.outcome = "ok" THEN "deleted" ELSE "nonzero",
               id |-> look.id, keys |-> tool.keys, valid |-> (tool.outcome = "ok") ]

\* The call of generate_partkey: its command's arguments and outcome, and
\* the partkey it returned (NoKey when it raised).
GenerateEv(c, g, gen) ==
    [ op |-> "generate", c |-> c, arg |-> g.args, ok |-> (g.exc = "none"),
      cmd |-> gen, partkey |-> g.partkey ]

\* The call of delete_del_app_partkey, with what the key tool (k) held when
\* it was made: whether it had the key the lookup named, and how many keys
\* of the account.
DeleteEv(c, del_acc, d, k) ==
    Ev("delete", c,
       [ acc |-> FormatAcc(del_acc), id |-> d.id, status |-> d.status,
         held |-> (\E r \in k : r.participation_id = d.id),
         owned |-> Cardinality({r \in k : r.parent_address = FormatAcc(del_acc)}) ],
       d.valid)

-----------------------------------------------------------------------------
(* main(): validator_script.py lines 194-325 *)

\* assert(result), line 260
assert_result_skipped(result) == TRUE

assert_result(result) == Bool(result)

\* try: delete_del_app_partkey(...) except: log  (lines 305-308): whatever
\* the deletion raised is swallowed.
delete_failure_propagated(exc) == exc

try_delete_except(exc) == "none"

\* The calls of lines 274 and 316 stand outside any try: what they raise
\* leaves main().
uncaught(exc) == exc

\* Where main() stands once the loop over `phase` has reached index i: the
\* first del_app still to be handled, or the sleep at the end of the cycle.
Pos(phase, i, nc, nd, na) ==
    IF phase = "created" /\ i <= nc THEN [pc |-> "created", idx |-> i]
    ELSE IF phase = "created" /\ nd >= 1 THEN [pc |-> "deposited", idx |-> 1]
    ELSE IF phase = "deposited" /\ i <= nd THEN [pc |-> "deposited", idx |-> i]
    ELSE IF phase \in {"created", "deposited"} /\ na >= 1 THEN [pc |-> "active", idx |-> 1]
    ELSE IF phase = "active" /\ i <= na THEN [pc |-> "active", idx |-> i]
    ELSE [pc |-> "sleep", idx |-> 1]

Advance(phase) ==
    LET p == Pos(phase, idx + 1, Len(del_app_created_list),
                 Len(del_app_deposited_list), Len(del_app_active_list))
    IN  /\ pc' = p.pc
        /\ idx' = p.idx
        /\ fatal' = NoFatal
        /\ UNCHANGED << del_app_list, del_app_active_list, del_app_deposited_list,
                        del_app_created_list, prev >>

\* An exception left main(): the process is gone, and its memory with it.
Crash(cause, path) ==
    /\ pc' = "crashed"
    /\ idx' = 1
    /\ fatal' = Fatal(cause, path)
    /\ partkey_table' = None
    /\ del_app_active_list' = << >>
    /\ del_app_deposited_list' = << >>
    /\ del_app_created_list' = << >>
    /\ UNCHANGED << del_app_list, prev >>

DoneIn(log, op) == {log[i].c : i \in {j \in 1..Len(log) : log[j].op = op /\ log[j].ok}}

TypeInit ==
    /\ last_round \in 0..MaxRound
    /\ num_generated = 0
    /\ pc = "fetch"
    /\ idx = 1
    /\ del_app_list = << >>
    /\ del_app_active_list = << >>
    /\ del_app_deposited_list = << >>
    /\ del_app_created_list = << >>
    /\ ops = << >>
    /\ prev = NoPrev
    /\ fatal = NoFatal
    /\ ParserIdle
    /\ TimerIdle

\* The script starts at any round, against a ledger whose contracts are in any class; a
\* contract past Created has the key the script generated for it, and the
\* constructor of PartkeyFetcherGoal has refreshed the table.
Init ==
    /\ TypeInit
    /\ \E cls \in [Contracts -> InitClasses] :
        /\ contracts = [c \in Contracts |->
                          [present |-> TRUE, state |-> InitStateOf(c, cls[c])]]
        /\ keys = { ToolKey(c, addpartkey_cmd_command_args(
                                  encode_address(c), 0, 1)) :
                    c \in {x \in Contracts : cls[x] # "created"} }
    /\ partkey_table = Table(keys)

\* Lines 205-230: fetch the contracts and sort them into the cluster stacks.
Fetch ==
    /\ UNCHANGED << parser_vars, timer_vars >>
    /\ pc = "fetch"
    /\ LET stacks == check_del_app_state_and_generate_cluster_stack(
                         get_del_app_list(contracts))
           p == Pos("created", 1, Len(stacks.created), Len(stacks.deposited),
                    Len(stacks.active))
       IN  /\ del_app_active_list' = stacks.active
           /\ del_app_deposited_list' = stacks.deposited
           /\ del_app_created_list' = stacks.created
           /\ pc' = p.pc
           /\ idx' = p.idx
    /\ prev' = [deposited |-> DoneIn(ops, "deposit"),
                terminated |-> DoneIn(ops, "terminate")]
    /\ ops' = << >>
    /\ UNCHANGED << contracts, last_round, keys, num_generated, partkey_table,
                    del_app_list, fatal >>

\* Lines 238-260: one del_app of the created stack. The dilution the key
\* tool gives the key has no bearing on the loop: here it is the one asked
\* for; SpecDeposit follows the values from the key to the deposit.
ProcessCreated ==
    /\ UNCHANGED << parser_vars, timer_vars >>
    /\ pc = "created"
    /\ \E gen \in GenOutcomes(num_generated), r1 \in RefreshOutcomes,
          r2 \in RefreshOutcomes, dep \in DepositOutcomes :
        LET del_app == del_app_created_list[idx]
            st == del_app.state
            acc == encode_address(as_bytes(st.del_acc))
            args == addpartkey_cmd_command_args(acc, st.round_start, st.round_end)
            g == generate_partkey(acc, st.round_start, st.round_end, keys,
                                  num_generated, gen, args.keyDilution, r1, r2)
            d == deposit_partkey(dep, last_round)
            gen_ev == GenerateEv(del_app.id, g, gen)
            dep_ev == Ev("deposit", del_app.id,
                         DepositArgs(g.partkey, acc, del_app.id, VAL_APP_ID),
                         Bool(d.result))
        IN  /\ keys' = g.keys
            /\ num_generated' = g.n
            /\ IF g.exc # "none"
               THEN /\ ops' = Append(ops, gen_ev)
                    /\ contracts' = contracts
                    /\ Crash(g.exc, "created")
               ELSE /\ ops' = ops \o << gen_ev, dep_ev >>
                    /\ contracts' = IF Bool(d.result)
                                    THEN LedgerDeposit(contracts, del_app.id, last_round)
                                    ELSE contracts
                    /\ IF d.exc # "none" THEN Crash("deposit_raised", "created")
                       ELSE IF ~assert_result(d.result)
                            THEN Crash("deposit_assert", "created")
                       ELSE /\ partkey_table' = g.table
                            /\ Advance("created")
    /\ UNCHANGED last_round

\* Lines 267-284: one del_app of the deposited stack.
ProcessDeposited ==
    /\ UNCHANGED << parser_vars, timer_vars >>
    /\ pc = "deposited"
    /\ \E del \in CmdOutcomes, term \in TermOutcomes :
        LET del_app == del_app_deposited_list[idx]
            st == del_app.state
            acc == encode_address(as_bytes(st.del_acc))
            elapsed == has_del_app_partkey_confirmation_time_elapsed(last_round, st)
            chk == Ev("check_deposited", del_app.id, last_round, elapsed)
            d == delete_del_app_partkey(partkey_table, keys, acc, del)
            exc == uncaught(d.exc)
            term_ev == Ev("terminate", del_app.id, "unconfirmed_keys",
                          term = "confirmed")
        IN  IF ~elapsed
            THEN /\ ops' = Append(ops, chk)
                 /\ UNCHANGED << contracts, keys, partkey_table >>
                 /\ Advance("deposited")
            ELSE /\ keys' = d.keys
                 /\ IF exc # "none"
                    THEN /\ ops' = ops \o << chk, DeleteEv(del_app.id, acc, d, keys) >>
                         /\ contracts' = contracts
                         /\ Crash(d.status, "deposited")
                    ELSE /\ ops' = ops \o << chk, DeleteEv(del_app.id, acc, d, keys), term_ev >>
                         /\ IF term = "confirmed"
                            THEN /\ contracts' = LedgerTerminate(contracts, del_app.id)
                                 /\ partkey_table' = partkey_table
                                 /\ Advance("deposited")
                            ELSE /\ contracts' = contracts
                                 /\ Crash("terminate", "deposited")
    /\ UNCHANGED << last_round, num_generated >>

ExpiryStageUnconditional(del_app, t1, d1) ==
    LET st == del_app.state
        expired == has_del_app_expired(last_round, st)
        chk == Ev("check_expired", del_app.id, last_round, expired)
        term_ev == Ev("terminate", del_app.id, "expiry", t1 = "confirmed")
        d == delete_del_app_partkey(partkey_table, keys, st.del_acc, d1)
    IN  IF t1 = "raise"
        THEN [ cause |-> "terminate", path |-> "expiry", evs |-> << chk, term_ev >>,
               keys |-> keys, led |-> contracts ]
        ELSE [ cause |-> "none", path |-> "none",
               evs |-> << chk, term_ev, DeleteEv(del_app.id, st.del_acc, d, keys) >>,
               keys |-> d.keys,
               led |-> LedgerTerminate(contracts, del_app.id) ]

\* Lines 291-308: the expiry check of one del_app of the active stack.
ExpiryStage(del_app, t1, d1) ==
    LET st == del_app.state
        expired == has_del_app_expired(last_round, st)
        chk == Ev("check_expired", del_app.id, last_round, expired)
        term_ev == Ev("terminate", del_app.id, "expiry", t1 = "confirmed")
        d == delete_del_app_partkey(partkey_table, keys, st.del_acc, d1)
        exc == try_delete_except(d.exc)
    IN  IF ~expired
        THEN [ cause |-> "none", path |-> "none", evs |-> << chk >>,
               keys |-> keys, led |-> contracts ]
        ELSE IF t1 = "raise"
        THEN [ cause |-> "terminate", path |-> "expiry", evs |-> << chk, term_ev >>,
               keys |-> keys, led |-> contracts ]
        ELSE [ cause |-> IF exc = "none" THEN "none" ELSE d.status,
               path |-> IF exc = "none" THEN "none" ELSE "expiry_delete",
               evs |-> << chk, term_ev, DeleteEv(del_app.id, st.del_acc, d, keys) >>,
               keys |-> d.keys,
               led |-> LedgerTerminate(contracts, del_app.id) ]

\* Lines 311-321: the breach check of the same del_app.
BreachStage(del_app, k, led, d2, t2) ==
    LET st == del_app.state
        breached == has_del_indefinitely_breached_terms(last_round, st)
        chk == Ev("check_breached", del_app.id, last_round, breached)
        term_ev == Ev("terminate", del_app.id, "breach", t2 = "confirmed")
        d == delete_del_app_partkey(partkey_table, k, st.del_acc, d2)
        exc == uncaught(d.exc)
    IN  IF ~breached
        THEN [ cause |-> "none", path |-> "none", evs |-> << chk >>,
               keys |-> k, led |-> led ]
        ELSE IF exc # "none"
        THEN [ cause |-> d.status, path |-> "breach",
               evs |-> << chk, DeleteEv(del_app.id, st.del_acc, d, k) >>,
               keys |-> d.keys, led |-> led ]
        ELSE IF t2 = "raise"
        THEN [ cause |-> "terminate", path |-> "breach",
               evs |-> << chk, DeleteEv(del_app.id, st.del_acc, d, k), term_ev >>,
               keys |-> d.keys, led |-> led ]
        ELSE [ cause |-> "none", path |-> "none",
               evs |-> << chk, DeleteEv(del_app.id, st.del_acc, d, k), term_ev >>,
               keys |-> d.keys, led |-> LedgerTerminate(led, del_app.id) ]

\* Lines 288-321: one del_app of the active stack.
ProcessActive ==
    /\ UNCHANGED << parser_vars, timer_vars >>
    /\ pc = "active"
    /\ \E t1 \in TermOutcomes, d1 \in CmdOutcomes, d2 \in CmdOutcomes,
          t2 \in TermOutcomes :
        LET del_app == del_app_active_list[idx]
            e == ExpiryStage(del_app, t1, d1)
            b == BreachStage(del_app, e.keys, e.led, d2, t2)
        IN  IF e.cause # "none"
            THEN /\ ops' = ops \o e.evs
                 /\ keys' = e.keys
                 /\ contracts' = e.led
                 /\ Crash(e.cause, e.path)
            ELSE /\ ops' = ops \o e.evs \o b.evs
                 /\ keys' = b.keys
                 /\ contracts' = b.led
                 /\ IF b.cause # "none"
                    THEN Crash(b.cause, b.path)
                    ELSE /\ partkey_table' = partkey_table
                         /\ Advance("active")
    /\ UNCHANGED << last_round, num_generated >>

\* Lines 323-325: the end of the cycle.
Sleep ==
    /\ UNCHANGED << parser_vars, timer_vars >>
    /\ pc = "sleep"
    /\ pc' = "fetch"
    /\ UNCHANGED << contracts, last_round, keys, num_generated, partkey_table, idx,
                    del_app_list, del_app_active_list, del_app_deposited_list,
                    del_app_created_list, ops, prev, fatal >>

\* The operator starts the script again: lines 194-198 build a new
\* PartkeyFetcherGoal, whose constructor refreshes the table.
Restart ==
    /\ UNCHANGED << parser_vars, timer_vars >>
    /\ pc = "crashed"
    /\ \E r \in RefreshOutcomes :
        LET t == refresh_partkey_table(r, keys)
        IN  /\ t.exc = "none"
            /\ partkey_table' = t.table
    /\ pc' = "fetch"
    /\ fatal' = NoFatal
    /\ UNCHANGED << contracts, last_round, keys, num_generated, idx, del_app_list,
                    del_app_active_list, del_app_deposited_list,
                    del_app_created_list, ops, prev >>

\* The ledger moves on while the script sleeps.
AdvanceRound ==
    /\ UNCHANGED << parser_vars, timer_vars >>
    /\ pc = "sleep"
    /\ last_round < MaxRound
    /\ last_round' = last_round + 1
    /\ UNCHANGED << contracts, keys, num_generated, partkey_table, pc, idx,
                    del_app_list, del_app_active_list, del_app_deposited_list,
                    del_app_created_list, ops, prev, fatal >>

\* A key leaves the key tool without the script (rotated, expired, removed
\* by the node's operator) while the script sleeps.
ExternalKeyRemoval ==
    /\ UNCHANGED << parser_vars, timer_vars >>
    /\ pc = "sleep"
    /\ \E k \in keys : keys' = keys \ {k}
    /\ UNCHANGED << contracts, last_round, num_generated, partkey_table, pc, idx,
                    del_app_list, del_app_active_list, del_app_deposited_list,
                    del_app_created_list, ops, prev, fatal >>

Next ==
    \/ Fetch
    \/ ProcessCreated
    \/ ProcessDeposited
    \/ ProcessActive
    \/ Sleep
    \/ Restart
    \/ AdvanceRound
    \/ ExternalKeyRemoval

Spec == Init /\ [][Next]_vars

\* The loop when the key tool and the ledger serve the Created contracts:
\* generate, both refreshes and the deposit succeed. The loop is one thread
\* that always takes its next step, and a stopped process is started again.
ProcessCreatedOk == ProcessCreated /\ pc' # "crashed"

NextLive ==
    \/ Fetch
    \/ ProcessCreatedOk
    \/ ProcessDeposited
    \/ ProcessActive
    \/ Sleep
    \/ Restart
    \/ AdvanceRound
    \/ ExternalKeyRemoval

SpecLive ==
    /\ Init
    /\ [][NextLive]_vars
    /\ WF_vars(Fetch)
    /\ WF_vars(ProcessCreatedOk)
    /\ WF_vars(ProcessDeposited)
    /\ WF_vars(ProcessActive)
    /\ WF_vars(Sleep)
    /\ WF_vars(Restart)

-----------------------------------------------------------------------------
(* The classification alone, on every list of up to MaxLen del_apps whose   *)
(* two flags take every value of Flags.                                     *)

FlagState(kc, pd) ==
    [ del_acc |-> DelAccOf(0), round_start |-> 0, round_end |-> 1,
      keys_confirmed |-> kc, part_keys_deposited |-> pd,
      round_deposited |-> 0, breached |-> FALSE ]

InitClassify ==
    /\ last_round = 0
    /\ num_generated = 0
    /\ idx = 1
    /\ del_app_active_list = << >>
    /\ del_app_deposited_list = << >>
    /\ del_app_created_list = << >>
    /\ ops = << >>
    /\ prev = NoPrev
    /\ fatal = NoFatal
    /\ contracts = [c \in Contracts |->
                      [present |-> FALSE, state |-> InitStateOf(c, "created")]]
    /\ keys = {}
    /\ partkey_table = None
    /\ pc = "classify"
    /\ del_app_list = << >>
    /\ ParserIdle
    /\ TimerIdle

\* One more del_app in the list handed to the classification.
ExtendInput ==
    /\ UNCHANGED << parser_vars, timer_vars >>
    /\ pc = "classify"
    /\ Len(del_app_list) < MaxLen
    /\ \E kc \in Flags, pd \in Flags :
        del_app_list' = Append(del_app_list,
                               [id |-> Len(del_app_list) + 1,
                                state |-> FlagState(kc, pd)])
    /\ UNCHANGED << contracts, last_round, keys, num_generated, partkey_table, pc,
                    idx, del_app_active_list, del_app_deposited_list,
                    del_app_created_list, ops, prev, fatal >>

ClassifyStep ==
    /\ UNCHANGED << parser_vars, timer_vars >>
    /\ pc = "classify"
    /\ LET stacks == check_del_app_state_and_generate_cluster_stack(del_app_list)
       IN  /\ del_app_active_list' = stacks.active
           /\ del_app_deposited_list' = stacks.deposited
           /\ del_app_created_list' = stacks.created
    /\ pc' = "classified"
    /\ UNCHANGED << contracts, last_round, keys, num_generated, partkey_table, idx,
                    del_app_list, ops, prev, fatal >>

NextClassify == ExtendInput \/ ClassifyStep

SpecClassify == InitClassify /\ [][NextClassify]_vars

-----------------------------------------------------------------------------
(* The parser alone, on the texts the key tool can print: a header line,    *)
(* then for each partkey a delimiter line and its lines, then the end of    *)
(* the last line. A partkey is printed well or with one defect.             *)

MaxBlocks == 2

Letters == << "a", "b", "c", "d", "e", "f", "g", "h", "i", "j", "k", "l" >>

Seeds == {"x", "y"}

Defects == {"none", "short", "long", "swap", "suffix", "noindent", "colon", "nodelim"}

\* The lines a defect can sit on: the first and the last of a partkey.
DefectLines == {1, PartkeyLines}

Header == << "h" >>

Delimiter == << "sp" >>

FieldValue(seed, i) == << seed, Letters[i] >>

\* One blank after the colon, or several around the value.
Pad(pad, v) == IF pad THEN << "sp", "sp" >> \o v \o << "sp" >> ELSE << "sp" >> \o v

PartkeyBlock(seed, pad, defect, p) ==
    LET q == (p % PartkeyLines) + 1
        label(i) == IF defect = "swap" /\ i = p THEN COLUMNS[q].label
                    ELSE IF defect = "swap" /\ i = q THEN COLUMNS[p].label
                    ELSE COLUMNS[i].label
        value(i) == IF defect = "colon" /\ i = p
                    THEN << seed, ":", Letters[i] >>
                    ELSE FieldValue(seed, i)
        line(i) == (IF defect = "noindent" /\ i = p THEN << >> ELSE << "sp" >>)
                   \o << label(i) >>
                   \o (IF defect = "suffix" /\ i = p THEN << "x" >> ELSE << >>)
                   \o << ":" >> \o Pad(pad, value(i))
        all == [ i \in 1..PartkeyLines |-> line(i) ]
    IN  IF defect = "short" THEN SubSeq(all, 1, p - 1) \o SubSeq(all, p + 1, PartkeyLines)
        ELSE IF defect = "long" THEN SubSeq(all, 1, p) \o SubSeq(all, p, PartkeyLines)
        ELSE all

\* The partkeys a text holds: each has one line of the second column.
NumPartkeys(text) ==
    Cardinality({ i \in 1..Len(text) :
                    \E j \in 1..Len(text[i]) : text[i][j] = COLUMNS[2].label })

\* The main loop is not running.
LoopIdle ==
    /\ last_round = 0
    /\ num_generated = 0
    /\ idx = 1
    /\ del_app_list = << >>
    /\ del_app_active_list = << >>
    /\ del_app_deposited_list = << >>
    /\ del_app_created_list = << >>
    /\ ops = << >>
    /\ prev = NoPrev
    /\ fatal = NoFatal
    /\ contracts = [c \in Contracts |->
                      [present |-> FALSE, state |-> InitStateOf(c, "created")]]
    /\ keys = {}
    /\ partkey_table = None

InitParse ==
    /\ LoopIdle
    /\ TimerIdle
    /\ pc = "parse"
    /\ list_cmd_result = << Header, << >> >>
    /\ info_cmd_result = << Header, << >> >>
    /\ parsed = NotParsed

\* The key tool prints one more partkey in its info output.
AppendPartkey ==
    /\ pc = "parse"
    /\ NumPartkeys(info_cmd_result) < MaxBlocks
    /\ \E seed \in Seeds, pad \in BOOLEAN, defect \in Defects, p \in DefectLines :
        /\ defect = "none" \/ (seed = "x" /\ ~pad)
        /\ defect = "none" => p = 1
        /\ info_cmd_result' =
              SubSeq(info_cmd_result, 1, Len(info_cmd_result) - 1)
              \o (IF defect = "nodelim" THEN << >> ELSE << Delimiter >>)
              \o PartkeyBlock(seed, pad, defect, p)
              \o << << >> >>
    /\ UNCHANGED << loop_vars, pc, list_cmd_result, parsed, timer_vars >>

\* The key tool prints one more line in its list output.
AppendListLine ==
    /\ pc = "parse"
    /\ Len(list_cmd_result) - 2 <= MaxBlocks
    /\ list_cmd_result' = SubSeq(list_cmd_result, 1, Len(list_cmd_result) - 1)
                           \o << << "k" >>, << >> >>
    /\ UNCHANGED << loop_vars, pc, info_cmd_result, parsed, timer_vars >>

ParseStep ==
    /\ pc = "parse"
    /\ parsed' = make_partkey_table_from_stdout(list_cmd_result, info_cmd_result)
    /\ pc' = "parsed"
    /\ UNCHANGED << loop_vars, list_cmd_result, info_cmd_result, timer_vars >>

NextParse == AppendPartkey \/ AppendListLine \/ ParseStep

SpecParse == InitParse /\ [][NextParse]_vars

-----------------------------------------------------------------------------
(* The timing of the loop alone: a cycle reads the time at its top, its     *)
(* work takes any number of seconds, and try_to_go_to_sleep ends it.        *)

MaxPeriod == 3

MaxTime == 6

InitSleep ==
    /\ LoopIdle
    /\ ParserIdle
    /\ pc = "top"
    /\ loop_period_s \in 0..MaxPeriod
    /\ start_time = 0
    /\ now = 0
    /\ slept = 0

\* Line 205: start_time = time.time()
StartCycle ==
    /\ pc \in {"top", "woke"}
    /\ now < MaxTime
    /\ start_time' = now
    /\ pc' = "body"
    /\ UNCHANGED << loop_vars, parser_vars, loop_period_s, now, slept >>

\* Lines 207-321 take one more second.
Work ==
    /\ pc = "body"
    /\ now < MaxTime
    /\ now' = now + 1
    /\ UNCHANGED << loop_vars, parser_vars, pc, loop_period_s, start_time, slept >>

\* Line 323: time.sleep returns after the time it was given.
GoToSleep ==
    /\ pc = "body"
    /\ slept' = try_to_go_to_sleep(loop_period_s, start_time, now)
    /\ now' = now + slept'
    /\ pc' = "woke"
    /\ UNCHANGED << loop_vars, parser_vars, loop_period_s, start_time >>

NextSleep == StartCycle \/ Work \/ GoToSleep

SpecSleep == InitSleep /\ [][NextSleep]_vars

-----------------------------------------------------------------------------
(* The values of one key, from the contract to addpartkey, to the key tool, *)
(* to the table and to deposit_keys: one Created contract with any window   *)
(* of rounds, whose generate and deposit calls succeed or not.              *)

MaxStart == 2

MaxWindow == 4

InitDeposit ==
    /\ ParserIdle
    /\ TimerIdle
    /\ last_round = 0
    /\ num_generated = 0
    /\ idx = 1
    /\ del_app_list = << >>
    /\ del_app_active_list = << >>
    /\ del_app_deposited_list = << >>
    /\ ops = << >>
    /\ prev = NoPrev
    /\ fatal = NoFatal
    /\ keys = {}
    /\ partkey_table = Table(keys)
    /\ \E c \in Contracts, first \in 0..MaxStart, window \in 0..MaxWindow :
        /\ contracts = [x \in Contracts |->
              [present |-> (x = c),
               state |-> [InitStateOf(x, "created") EXCEPT
                              !.round_start = first, !.round_end = first + window]]]
        /\ del_app_created_list = get_del_app_list(contracts)
    /\ pc = "generate"

\* Lines 241-245, the command succeeding.
GenerateStep ==
    /\ pc = "generate"
    /\ LET del_app == del_app_created_list[idx]
           st == del_app.state
           acc == encode_address(as_bytes(st.del_acc))
           args == addpartkey_cmd_command_args(acc, st.round_start, st.round_end)
       IN  \E dil \in ToolDilutions(args), r \in {"table", "mismatch"} :
               LET g == generate_partkey(acc, st.round_start, st.round_end, keys,
                                         num_generated, "ok", dil, "table", r)
               IN  /\ keys' = g.keys
                   /\ num_generated' = g.n
                   /\ partkey_table' = g.table
                   /\ ops' = Append(ops, GenerateEv(del_app.id, g, "ok"))
                   /\ pc' = IF g.exc = "none" THEN "deposit" ELSE "crashed"
                   /\ fatal' = IF g.exc = "none" THEN NoFatal ELSE Fatal(g.exc, "created")
    /\ UNCHANGED << contracts, last_round, idx, del_app_list, del_app_active_list,
                    del_app_deposited_list, del_app_created_list, prev,
                    parser_vars, timer_vars >>

\* Lines 248-260.
DepositStep ==
    /\ pc = "deposit"
    /\ \E dep \in DepositOutcomes :
        LET del_app == del_app_created_list[idx]
            acc == encode_address(as_bytes(del_app.state.del_acc))
            d == deposit_partkey(dep, last_round)
        IN  /\ ops' = Append(ops, Ev("deposit", del_app.id,
                                     DepositArgs(ops[Len(ops)].partkey, acc,
                                                 del_app.id, VAL_APP_ID),
                                     Bool(d.result)))
            /\ contracts' = IF Bool(d.result)
                            THEN LedgerDeposit(contracts, del_app.id, last_round)
                            ELSE contracts
            /\ pc' = IF d.exc = "none" /\ assert_result(d.result)
                     THEN "deposited" ELSE "crashed"
            /\ fatal' = IF d.exc # "none" THEN Fatal("deposit_raised", "created")
                        ELSE IF ~assert_result(d.result)
                        THEN Fatal("deposit_assert", "created")
                        ELSE NoFatal
    /\ UNCHANGED << last_round, keys, num_generated, partkey_table, idx, del_app_list,
                    del_app_active_list, del_app_deposited_list, del_app_created_list,
                    prev, parser_vars, timer_vars >>

NextDeposit == GenerateStep \/ DepositStep

SpecDeposit == InitDeposit /\ [][NextDeposit]_vars

-----------------------------------------------------------------------------
(* Properties *)

Ids(list) == {list[i].id : i \in 1..Len(list)}

Occurrences(list, del_app) == Cardinality({i \in 1..Len(list) : list[i] = del_app})

Running == pc \in {"created", "deposited", "active", "sleep"}

OwnedKeys(a) == {k \in keys : k.parent_address = a}

AccountOf(c) == as_bytes(contracts[c].state.del_acc)

\* C1: keys are never double-generated: whatever crashes and restarts
\* happen, no account owns more than one participation key record in the
\* key tool.
C1_NoDoubleGeneration ==
    \A c \in Contracts : Cardinality(OwnedKeys(AccountOf(c))) <= 1

\* C2: once the deposit for a Created contract was not confirmed (the call
\* raised or returned no confirmed round), that deposit is the last call the
\* process makes: it has stopped, and nothing but a restart follows.
C2_FailedDepositStopsLoop ==
    \A i \in 1..Len(ops) :
        (ops[i].op = "deposit" /\ ~ops[i].ok) =>
            /\ i = Len(ops)
            /\ \/ pc = "crashed" /\ fatal.cause \in {"deposit_raised", "deposit_assert"}
               \/ pc = "fetch" /\ fatal = NoFatal /\ del_app_created_list = << >>

\* The deposit returned without a confirmed round while another contract
\* was still waiting for its key: the process has stopped.
C2_Witness ==
    /\ pc = "crashed"
    /\ fatal.cause = "deposit_assert"
    /\ Len(ops) > 0
    /\ ops[Len(ops)].op = "deposit"
    /\ \E c \in Contracts :
        /\ c # ops[Len(ops)].c
        /\ contracts[c].present
        /\ contracts[c].state.part_keys_deposited = 0
        /\ contracts[c].state.keys_confirmed = 0

\* C3: the classification is a strict partition: every del_app of the input
\* is in exactly one of the three lists, once, and the three lengths sum to
\* the length of the input.
C3_StrictPartition ==
    pc = "classified" =>
        /\ \A i \in 1..Len(del_app_list) :
              Occurrences(del_app_created_list, del_app_list[i])
            + Occurrences(del_app_deposited_list, del_app_list[i])
            + Occurrences(del_app_active_list, del_app_list[i]) = 1
        /\ Len(del_app_created_list) + Len(del_app_deposited_list)
            + Len(del_app_active_list) = Len(del_app_list)

C3_Witness ==
    /\ pc = "classified"
    /\ Len(del_app_list) >= 3
    /\ del_app_created_list # << >>
    /\ del_app_deposited_list # << >>
    /\ del_app_active_list # << >>

\* C4: Created iff neither flag is set, Deposited iff part_keys_deposited is
\* set and keys_confirmed is not, Active iff keys_confirmed is set.
C4_FlagsToBuckets ==
    pc = "classified" =>
        \A i \in 1..Len(del_app_list) :
            LET d == del_app_list[i]
                confirmed == d.state.keys_confirmed > 0
                deposited == d.state.part_keys_deposited > 0
            IN  /\ (d.id \in Ids(del_app_created_list)) <=> (~confirmed /\ ~deposited)
                /\ (d.id \in Ids(del_app_deposited_list)) <=> (deposited /\ ~confirmed)
                /\ (d.id \in Ids(del_app_active_list)) <=> confirmed

\* A del_app with both flags set has been classified, as Active.
C4_Witness ==
    /\ pc = "classified"
    /\ \E i \in 1..Len(del_app_active_list) :
        /\ del_app_active_list[i].state.keys_confirmed > 0
        /\ del_app_active_list[i].state.part_keys_deposited > 0
    /\ \E i \in 1..Len(del_app_deposited_list) :
        del_app_deposited_list[i].state.part_keys_deposited > 1

\* C5: every Created del_app the loop handles gets a generate call with its
\* account, round_start and round_end; a deposit is called only right after
\* the generate of the same contract succeeded, once, with that contract's
\* id and the validator's id; and a contract whose deposit was confirmed is
\* in the deposited list of the next fetch.
C5_GenerateThenDeposit ==
    /\ \A i \in 1..Len(ops) :
        /\ ops[i].op = "generate" =>
            /\ ops[i].arg.a = AccountOf(ops[i].c)
            /\ ops[i].arg.roundFirstValid = contracts[ops[i].c].state.round_start
            /\ ops[i].arg.roundLastValid = contracts[ops[i].c].state.round_end
            /\ ops[i].ok => /\ i < Len(ops)
                            /\ ops[i + 1].op = "deposit"
                            /\ ops[i + 1].c = ops[i].c
        /\ ops[i].op = "deposit" =>
            /\ i > 1
            /\ ops[i - 1].op = "generate"
            /\ ops[i - 1].ok
            /\ ops[i - 1].c = ops[i].c
            /\ ops[i].arg.foreign_apps = << VAL_APP_ID, ops[i].c >>
            /\ ops[i].arg.del_acc = AccountOf(ops[i].c)
            /\ \A j \in 1..Len(ops) :
                (ops[j].op = "deposit" /\ ops[j].c = ops[i].c) => j = i
    /\ pc = "created" =>
        \A j \in 1..(idx - 1) :
            \E i \in 1..Len(ops) : /\ ops[i].op = "generate"
                                   /\ ops[i].c = del_app_created_list[j].id
    /\ Running => \A c \in prev.deposited : c \in Ids(del_app_deposited_list)

\* A contract deposited in the cycle before is in the deposited list now.
C5_Witness ==
    /\ Running
    /\ \E c \in prev.deposited : c \in Ids(del_app_deposited_list)

\* C6: for every Deposited del_app whose confirmation deadline has elapsed,
\* the cycle calls delete for the key of its account and then terminate
\* (unconfirmed keys) for it, once each and in that order, and a contract so
\* terminated is off the ledger.
C6_DeleteThenTerminate ==
    \A i \in 1..Len(ops) :
        (ops[i].op = "check_deposited" /\ ops[i].ok) =>
            /\ Len(ops) >= i + 2
            /\ ops[i + 1].op = "delete"
            /\ ops[i + 1].c = ops[i].c
            /\ ops[i + 1].arg.acc = AccountOf(ops[i].c)
            /\ ops[i + 1].arg.status \in {"deleted", "nonzero"}
            /\ ops[i + 2].op = "terminate"
            /\ ops[i + 2].c = ops[i].c
            /\ ops[i + 2].arg = "unconfirmed_keys"
            /\ ops[i + 2].ok => ~contracts[ops[i].c].present

\* C7: for every Active del_app found expired, a termination with the
\* expiry reason is issued; once it is confirmed the deletion of the key is
\* attempted, and whatever that attempt does (no table, no record, several
\* records, a failing command) the loop goes on: the breach check of the
\* same del_app follows, and the process is not ended by the deletion.
C7_ExpiryDeleteSwallowed ==
    /\ fatal.path # "expiry_delete"
    /\ \A i \in 1..Len(ops) :
        (ops[i].op = "check_expired" /\ ops[i].ok) =>
            /\ Len(ops) >= i + 1
            /\ ops[i + 1].op = "terminate"
            /\ ops[i + 1].c = ops[i].c
            /\ ops[i + 1].arg = "expiry"
            /\ ops[i + 1].ok =>
                /\ Len(ops) >= i + 3
                /\ ops[i + 2].op = "delete"
                /\ ops[i + 2].c = ops[i].c
                /\ ops[i + 3].op = "check_breached"
                /\ ops[i + 3].c = ops[i].c
                /\ (i + 3 = Len(ops) /\ ~ops[i + 3].ok) => pc # "crashed"

\* The deletion after an expiry termination failed, and the process lives.
C7_Witness ==
    /\ pc # "crashed"
    /\ \E i \in 2..Len(ops) :
        /\ ops[i].op = "delete"
        /\ ~ops[i].ok
        /\ ops[i - 1].op = "terminate"
        /\ ops[i - 1].arg = "expiry"

\* C8: for every Active del_app in breach, the cycle deletes the key owned
\* by the del_app's delegator account and then issues a termination for it.
C8_BreachDeleteThenTerminate ==
    \A i \in 1..Len(ops) :
        (ops[i].op = "check_breached" /\ ops[i].ok) =>
            /\ Len(ops) >= i + 2
            /\ ops[i + 1].op = "delete"
            /\ ops[i + 1].c = ops[i].c
            /\ ops[i + 1].arg.acc = AccountOf(ops[i].c)
            /\ ops[i + 2].op = "terminate"
            /\ ops[i + 2].c = ops[i].c
            /\ ops[i + 2].arg = "breach"

\* C9: an unavailable key table (the parser returned None) never ends the
\* process.
C9_NoTableDoesNotAbort == fatal.cause # "no_table"

\* C10: a lookup that finds no record, or several, for an account never
\* ends the process: the other contracts and the later cycles are handled.
C10_LookupFailureNotFatal == fatal.cause \notin {"not_found", "ambiguous"}

\* The partkeys of the info output as the parser groups them.
Groups == GroupPartkeys(info_cmd_result)

NoTableReturned == parsed.called /\ parsed.exc = "none" /\ ~parsed.avail

\* C11: whenever the count taken from the list output (its lines minus 2)
\* differs from the number of partkeys grouped from the info output, the
\* parser returns no table and raises nothing.
C11_CountMismatchNoTable ==
    (pc = "parsed" /\ Len(list_cmd_result) - 2 # Len(Groups)) => NoTableReturned

LabelOf(line) == Strip(Split(line, ":")[1])

Malformed(partkey) ==
    \/ Len(partkey) # PartkeyLines
    \/ \E i \in 1..PartkeyLines : LabelOf(partkey[i]) # << COLUMNS[i].label >>

\* C12: whenever a partkey of the info output has not 12 lines, or a label
\* that is not the required one at its position, the parser returns no
\* table, no record, and raises nothing.
C12_MalformedBatchRejected ==
    (pc = "parsed" /\ \E b \in 1..Len(Groups) : Malformed(Groups[b]))
        => (NoTableReturned /\ parsed.rows = << >>)

RECURSIVE WellFormedBody(_, _)
WellFormedBody(blocks, b) ==
    IF b > Len(blocks) THEN << >>
    ELSE << Delimiter >> \o PartkeyBlock(blocks[b].seed, blocks[b].pad, "none", 1)
         \o WellFormedBody(blocks, b + 1)

WellFormedInfo(blocks) == << Header >> \o WellFormedBody(blocks, 1) \o << << >> >>

C14_GenerateFailureNoDeposit ==
    \A i \in 1..Len(ops) :
        (ops[i].op = "generate" /\ ops[i].cmd \in {"nonzero", "oserror"}) =>
            /\ ~ops[i].ok
            /\ ops[i].partkey = NoKey
            /\ i = Len(ops)
            /\ \/ pc = "crashed" /\ fatal = Fatal("generate_cmd", "created")
               \/ pc = "fetch" /\ fatal = NoFatal

\* The addpartkey process could not be started: the process has stopped
\* and the contract is still without a deposit and without a key.
C14_Witness ==
    /\ pc = "crashed"
    /\ Len(ops) > 0
    /\ ops[Len(ops)].op = "generate"
    /\ ops[Len(ops)].cmd = "oserror"
    /\ contracts[ops[Len(ops)].c].state.part_keys_deposited = 0
    /\ OwnedKeys(AccountOf(ops[Len(ops)].c)) = {}

\* C15: delete returns a (validity, output) pair and never raises: every
\* call of delete_del_app_partkey ends with the key deleted or with the
\* command's non-zero exit reported, whether the command succeeds, fails,
\* cannot be started, or the key is already absent.
C15_DeleteNeverRaises ==
    \A i \in 1..Len(ops) :
        ops[i].op = "delete" => ops[i].arg.status \in {"deleted", "nonzero"}

\* The records of the cached table owned by account a.
TableOwned(a) == {r \in partkey_table.rows : r.parent_address = a}

\* C16: on every key table the loop comes to hold, the lookup of an account
\* returns the identifier of the account's record when the table has exactly
\* one, raises (not found) when it has none and raises (ambiguous) when it
\* has several; an identifier it returns is never that of a record of
\* another account.
C16_LookupUnique ==
    partkey_table.avail =>
        \A c \in Contracts :
            LET a == AccountOf(c)
                look == get_partkey_id_from_acc(partkey_table, encode_address(a))
            IN  /\ Cardinality(TableOwned(a)) = 1 =>
                       /\ look.exc = "none"
                       /\ \A r \in TableOwned(a) : r.participation_id = look.id
                /\ TableOwned(a) = {} =>
                       look.exc = "ValueError" /\ look.status = "not_found"
                /\ Cardinality(TableOwned(a)) > 1 =>
                       look.exc = "ValueError" /\ look.status = "ambiguous"
                /\ look.exc = "none" =>
                       \A r \in partkey_table.rows :
                           r.participation_id = look.id => r.parent_address = a

\* A deletion met two records of one account; the table read again after
\* the restart holds them, and one record of another account.
C16_Witness ==
    /\ partkey_table.avail
    /\ \E i \in 1..Len(ops) :
        /\ ops[i].op = "delete"
        /\ ops[i].arg.status = "ambiguous"
        /\ Cardinality(TableOwned(ops[i].arg.acc)) = 2
    /\ \E c \in Contracts : Cardinality(TableOwned(AccountOf(c))) = 1

\* C17: every lookup of a key by account is answered from what the key tool
\* holds at that time: an identifier it returns is the id of a key the tool
\* has, and an account it reports without a record has no key in the tool.
C17_LookupNeverStale ==
    \A i \in 1..Len(ops) :
        ops[i].op = "delete" =>
            /\ ops[i].arg.status \in {"deleted", "nonzero", "oserror"} => ops[i].arg.held
            /\ ops[i].arg.status = "not_found" => ops[i].arg.owned = 0

\* C18: when the loop wakes, with elapsed the time the cycle's work took:
\* it slept period - elapsed if elapsed < period and not at all otherwise,
\* the time slept is between 0 and the period, and the next cycle starts
\* max(period, elapsed) after this one did.
C18_SleepCompensatesDrift ==
    pc = "woke" =>
        LET elapsed == (now - slept) - start_time
        IN  /\ elapsed < loop_period_s => slept = loop_period_s - elapsed
            /\ elapsed >= loop_period_s => slept = 0
            /\ slept >= 0
            /\ slept <= loop_period_s
            /\ now - start_time = IF loop_period_s > elapsed THEN loop_period_s
                                  ELSE elapsed

\* A second cycle whose work took less than the period, after a first one
\* whose work took more.
C18_Witness ==
    /\ pc = "woke"
    /\ start_time > loop_period_s
    /\ slept > 0
    /\ slept < loop_period_s

\* C19: the key dilution given to addpartkey is int(round(sqrt(d))) with d
\* the length of the key's validity window, round_end - round_start.
C19_DilutionFromDuration ==
    \A i \in 1..Len(ops) :
        ops[i].op = "generate" =>
            ops[i].arg.keyDilution =
                IntRoundSqrt(ops[i].arg.roundLastValid - ops[i].arg.roundFirstValid)

\* C20: every delete and every terminate of a cycle comes after a check of
\* the same contract, in that cycle, that found its trigger: the contract
\* was in the deposited list and its confirmation deadline had elapsed, or
\* in the active list and expired or in breach, at the round the check read;
\* and no contract of the created list is deleted from or terminated.
C20_OnlyOnTrigger ==
    \A i \in 1..Len(ops) :
        ops[i].op \in {"delete", "terminate"} =>
            /\ Running => ops[i].c \notin Ids(del_app_created_list)
            /\ \E j \in 1..(i - 1) :
                LET c == ops[i].c
                    st == contracts[c].state
                    round == ops[j].arg
                    reason(r) == ops[i].op = "terminate" => ops[i].arg = r
                IN  /\ ops[j].c = c
                    /\ ops[j].ok
                    /\ round <= last_round
                    /\ \/ /\ ops[j].op = "check_deposited"
                          /\ Running => c \in Ids(del_app_deposited_list)
                          /\ st.part_keys_deposited > 0 /\ st.keys_confirmed = 0
                          /\ round > st.round_deposited + CONFIRM_GRACE
                          /\ reason("unconfirmed_keys")
                       \/ /\ ops[j].op = "check_expired"
                          /\ Running => c \in Ids(del_app_active_list)
                          /\ st.keys_confirmed > 0
                          /\ round > st.round_end
                          /\ reason("expiry")
                       \/ /\ ops[j].op = "check_breached"
                          /\ Running => c \in Ids(del_app_active_list)
                          /\ st.keys_confirmed > 0
                          /\ st.breached
                          /\ reason("breach")

\* One cycle has terminated a Deposited contract past its deadline and an
\* expired Active contract.
C20_Witness ==
    /\ Running
    /\ \E i \in 1..Len(ops), j \in 1..Len(ops) :
        /\ ops[i].op = "terminate" /\ ops[i].arg = "unconfirmed_keys" /\ ops[i].ok
        /\ ops[j].op = "terminate" /\ ops[j].arg = "expiry" /\ ops[j].ok
        /\ ~contracts[ops[i].c].present
        /\ ~contracts[ops[j].c].present

\* C21: termination is absorbing: once a termination of a contract is
\* confirmed, the process makes no further call for that contract (no
\* generate, deposit, delete or second terminate), but for the deletion of
\* its key that belongs to the expiry termination; and a terminated contract
\* is in no list of the next cycle.
C21_TerminationAbsorbing ==
    /\ \A i \in 1..Len(ops) :
        (ops[i].op = "terminate" /\ ops[i].ok) =>
            \A j \in (i + 1)..Len(ops) :
                ops[j].c = ops[i].c =>
                    \/ ops[j].op \notin {"generate", "deposit", "delete", "terminate"}
                    \/ j = i + 1 /\ ops[i].arg = "expiry" /\ ops[j].op = "delete"
    /\ Running =>
        \A c \in prev.terminated :
            c \notin Ids(del_app_created_list) \cup Ids(del_app_deposited_list)
                     \cup Ids(del_app_active_list)

\* C22: what is deposited for a Created contract is what its key has: the
\* deposited round_start and round_end are those the key was generated
\* with, and the deposited key dilution is the dilution asked of addpartkey
\* and the one the key tool holds for the key.
C22_DepositedValuesOfKey ==
    \A i \in 2..Len(ops) :
        ops[i].op = "deposit" =>
            /\ ops[i].arg.round_start = ops[i - 1].arg.roundFirstValid
            /\ ops[i].arg.round_end = ops[i - 1].arg.roundLastValid
            /\ ops[i].arg.vote_key_dilution = ops[i - 1].arg.keyDilution
            /\ \A k \in keys :
                k.participation_id = ops[i].arg.partkey_id =>
                    ops[i].arg.vote_key_dilution = k.key_dilution

\* C23: with the key tool and the ledger serving the Created contracts and
\* the cycles going on, every contract that is Created on the ledger is
\* eventually Deposited: its key generated and its deposit confirmed,
\* whatever happens to the Deposited and Active contracts.
C23_CreatedEventuallyDeposited ==
    \A c \in Contracts :
        (contracts[c].present /\ contracts[c].state.part_keys_deposited = 0)
            ~> (contracts[c].state.part_keys_deposited = 1)

\* A Created contract has been given its key and its deposit in a cycle
\* that has an Active contract in breach to handle.
C23_Witness ==
    /\ pc = "active"
    /\ \E c \in Ids(del_app_created_list) :
        /\ contracts[c].state.part_keys_deposited = 1
        /\ OwnedKeys(AccountOf(c)) # {}
    /\ \E i \in 1..Len(del_app_active_list) : del_app_active_list[i].state.breached

\* The loop of main() a call belongs to; a delete belongs to the loop of the
\* call before it.
EvPhase(e) ==
    IF e.op \in {"generate", "deposit"} THEN "created"
    ELSE IF e.op = "check_deposited" \/ (e.op = "terminate" /\ e.arg = "unconfirmed_keys")
    THEN "deposited"
    ELSE IF e.op \in {"check_expired", "check_breached", "terminate"} THEN "active"
    ELSE "delete"

PhaseRank(ph) == IF ph = "created" THEN 1 ELSE IF ph = "deposited" THEN 2 ELSE 3

PhaseList(ph) ==
    IF ph = "created" THEN del_app_created_list
    ELSE IF ph = "deposited" THEN del_app_deposited_list
    ELSE del_app_active_list

\* C24: in one cycle the calls are made in the order Created, Deposited,
\* Active; all calls for one contract belong to one of the three loops, that
\* of the list the fetch of the cycle put it in, and each contract is visited
\* once; the lists share no contract, so a Created contract deposited in the
\* cycle is not visited as Deposited in it; and the position of main() never
\* precedes the loop of a call already made.
C24_OnePhasePerCycle ==
    /\ \A i \in 1..Len(ops) : \A j \in i..Len(ops) :
        (EvPhase(ops[i]) # "delete" /\ EvPhase(ops[j]) # "delete") =>
            /\ PhaseRank(EvPhase(ops[i])) <= PhaseRank(EvPhase(ops[j]))
            /\ ops[i].c = ops[j].c => EvPhase(ops[i]) = EvPhase(ops[j])
            /\ (/\ i < j
                /\ ops[i].c = ops[j].c
                /\ ops[i].op \in {"generate", "check_deposited", "check_expired",
                                  "check_breached"})
               => ops[j].op # ops[i].op
    /\ \A i \in 1..Len(ops) :
        /\ EvPhase(ops[i]) = "delete" => (i > 1 /\ ops[i - 1].c = ops[i].c)
        /\ (Running /\ EvPhase(ops[i]) # "delete") =>
               /\ ops[i].c \in Ids(PhaseList(EvPhase(ops[i])))
               /\ pc # "sleep" => PhaseRank(EvPhase(ops[i])) <= PhaseRank(pc)
    /\ Running =>
        /\ Ids(del_app_created_list) \cap Ids(del_app_deposited_list) = {}
        /\ Ids(del_app_created_list) \cap Ids(del_app_active_list) = {}
        /\ Ids(del_app_deposited_list) \cap Ids(del_app_active_list) = {}

\* The cycle is over: a Created contract was deposited in it, a Deposited
\* contract was checked in it, and the former was not.
C24_Witness ==
    /\ pc = "sleep"
    /\ \E c \in Ids(del_app_created_list) :
        /\ contracts[c].state.part_keys_deposited = 1
        /\ \A i \in 1..Len(ops) : ops[i].op = "check_deposited" => ops[i].c # c
    /\ \E i \in 1..Len(ops) : ops[i].op = "check_deposited"

====
